---- MODULE Spec2Model ----
(***************************************************************************)
(* Model of Tudat/JsonInterface/Propagation/propagator.h: the translation  *)
(* between a JSON propagation configuration and propagator settings.       *)
(*                                                                         *)
(* A JSON object is a function whose DOMAIN is the set of defined keys, so *)
(* isDefined( json, key ) is key \in DOMAIN json.  A shared pointer to a   *)
(* polymorphic settings object is a record with a "kind" field; a dynamic  *)
(* cast is a test of that field.  A call either returns a value, throws an *)
(* exception, or ends the process (std::terminate): see Ok, Throw and      *)
(* Terminate.                                                              *)
(***************************************************************************)
EXTENDS Integers, Sequences, FiniteSets, TLC

VARIABLES
    pc,                    \* position of the caller: which call has returned
    jsonObject,            \* the json object handed to / produced by a call
    jsonBefore,            \* the json object as it was before the first call
    bodyMap,               \* simulation_setup::NamedBodyMap handed to the call
    terminationSettings,   \* argument of getTerminationEpoch
    exportSettingsVector,  \* argument of resetDependentVariableSaveSettings
    settings,              \* the settings object the caller holds
    result,                \* outcome of the last call
    log                    \* accesses made by determineInitialStates

vars == <<pc, jsonObject, jsonBefore, bodyMap, terminationSettings,
          exportSettingsVector, settings, result, log>>

-----------------------------------------------------------------------------
(* Bounds of the model.                                                    *)

\* Largest number of nodes of a termination-condition tree.
MaxNodes == 4

-----------------------------------------------------------------------------
(* Outcomes of a call.                                                     *)

Null == [kind |-> "null"]

\* No json object is involved.
NoJson == [none |-> TRUE]

Ok(v) == [status |-> "ok", error |-> "", value |-> v]

Throw(e) == [status |-> "error", error |-> e, value |-> Null]

\* `throw;' evaluated while no exception is being handled calls std::terminate.
Terminate == [status |-> "terminate", error |-> "", value |-> Null]

-----------------------------------------------------------------------------
(* Termination settings.                                                   *)

TUDAT_NAN == -1

isNaN(x) == x = TUDAT_NAN

\* PropagationTimeTerminationSettings( terminationTime )
TimeTermination(t) == [kind |-> "time", terminationTime_ |-> t]

\* PropagationDependentVariableTerminationSettings
DependentTermination == [kind |-> "dependent"]

\* PropagationHybridTerminationSettings( terminationSettings, fulFillSingleCondition )
HybridTermination(conditions, fulFillSingleCondition) ==
    [kind |-> "hybrid", terminationSettings_ |-> conditions,
     fulFillSingleCondition_ |-> fulFillSingleCondition]

\* Epochs a user time condition may carry (TUDAT_NAN: no time bound).
UserEpochs == {TUDAT_NAN, 3, 5}

LeafConditions == {TimeTermination(t) : t \in UserEpochs} \cup {DependentTermination}

RECURSIVE ConditionsOfSize(_), ConditionListsOfSize(_)
\* The termination-condition trees with exactly n nodes.
ConditionsOfSize(n) ==
    IF n = 1
    THEN LeafConditions \cup {HybridTermination(<<>>, m) : m \in BOOLEAN}
    ELSE {HybridTermination(cs, m) : cs \in ConditionListsOfSize(n - 1), m \in BOOLEAN}

\* The lists of trees with k nodes in total.
ConditionListsOfSize(k) ==
    IF k = 0
    THEN {<<>>}
    ELSE UNION {{<<c>> \o cs : c \in ConditionsOfSize(j), cs \in ConditionListsOfSize(k - j)}
                : j \in 1..k}

Conditions == UNION {ConditionsOfSize(n) : n \in 1..MaxNodes}

HybridConditions == {c \in Conditions : c.kind = "hybrid"}

\* getTerminationEpoch without the recursion into nested hybrid conditions.
getTerminationEpochShallow(ts) ==
    IF ts.kind = "time"
    THEN ts.terminationTime_
    ELSE IF ts.kind = "hybrid"
         THEN LET cs == ts.terminationSettings_
                  hits == {i \in 1..Len(cs) : cs[i].kind = "time" /\ ~isNaN(cs[i].terminationTime_)}
              IN  IF hits = {} THEN TUDAT_NAN
                  ELSE cs[CHOOSE i \in hits : \A j \in hits : i <= j].terminationTime_
         ELSE TUDAT_NAN

RECURSIVE getTerminationEpoch(_), getTerminationEpochLoop(_, _)
\* TimeType getTerminationEpoch( terminationSettings )
getTerminationEpoch(ts) ==
    IF ts.kind = "time"
    THEN ts.terminationTime_
    ELSE IF ts.kind = "hybrid"
         THEN getTerminationEpochLoop(ts.terminationSettings_, 1)
         ELSE TUDAT_NAN

\* The for loop of getTerminationEpoch, from index i on.
getTerminationEpochLoop(conditions, i) ==
    IF i > Len(conditions)
    THEN TUDAT_NAN
    ELSE LET endEpoch == getTerminationEpoch(conditions[i])
         IN  IF ~isNaN(endEpoch) THEN endEpoch
             ELSE getTerminationEpochLoop(conditions, i + 1)

-----------------------------------------------------------------------------
(* json values and value access (Support/valueAccess.h).                   *)

\* A json object with no key.
EmptyObject == [k \in {} |-> 0]

\* The json object that operator[] with a key writes to: a null json becomes
\* an object with no key.
asObject(json) == IF json = NoJson THEN EmptyObject ELSE json

\* The json object o with key k set to v.
WithKey(o, k, v) == [x \in DOMAIN o \cup {k} |-> IF x = k THEN v ELSE o[x]]

\* The json object holding the keys of o1 and of o2 (o2 wins).
Merge(o1, o2) == [x \in DOMAIN o1 \cup DOMAIN o2 |-> IF x \in DOMAIN o2 THEN o2[x] ELSE o1[x]]

isDefined(o, k) == k \in DOMAIN o

\* getValue( json, key ): throws when the key is not defined.
getValue(o, k) == IF isDefined(o, k) THEN Ok(o[k]) ELSE Throw("UndefinedKeyError:" \o k)

\* An Eigen column vector: its number of rows and its coefficients.
Vector(coefficients) == [rows |-> Len(coefficients), coeff |-> coefficients]

\* json array -> Eigen::Matrix< StateScalarType, Eigen::Dynamic, 1 >
vectorFromJson(array) == Vector(array)

\* Eigen::Matrix< StateScalarType, Eigen::Dynamic, 1 > -> json array
vectorToJson(v) == [i \in 1..v.rows |-> v.coeff[i]]

-----------------------------------------------------------------------------
(* Enumerations and their string representations.                          *)

\* The enumerators of IntegratedStateType, in the order of their values.
IntegratedStateTypeValues ==
    <<"hybrid", "translational_state", "rotational_state", "body_mass_state", "custom_state">>

integratedStateTypes ==
    [hybrid |-> "hybrid", translational_state |-> "translational",
     rotational_state |-> "rotational", body_mass_state |-> "mass",
     custom_state |-> "custom"]

unsupportedIntegratedStateTypes == {"hybrid", "custom_state"}

translationalPropagatorTypes ==
    [cowell |-> "cowell", encke |-> "encke", gauss_keplerian |-> "gaussKeplerian",
     gauss_modified_equinoctial |-> "gaussModifiedEquinoctial"]

\* json_interface::stringFromEnum( value, stringValues )
stringFromEnum(value, stringValues) == stringValues[value]

\* json_interface::enumFromString( text, stringValues )
enumFromString(text, stringValues) ==
    IF \E e \in DOMAIN stringValues : stringValues[e] = text
    THEN Ok(CHOOSE e \in DOMAIN stringValues : stringValues[e] = text)
    ELSE Throw("UnknownEnumError")

\* json_interface::handleUnimplementedEnumValue( value, stringValues, unsupportedValues )
handleUnimplementedEnumValue(value, unsupportedValues) ==
    IF value \in unsupportedValues
    THEN Throw("UnsupportedEnumError")
    ELSE Throw("UnimplementedEnumError")

\* The propagator_ of a default-constructed TranslationalStatePropagatorSettings.
defaultPropagator == "cowell"

\* PropagationTimeTerminationSettings( TUDAT_NAN ): epoch > TUDAT_NAN is never true.
noTermination == TimeTermination(TUDAT_NAN)

-----------------------------------------------------------------------------
(* SingleArcPropagatorSettings.                                            *)

TranslationalStatePropagatorSettings(centralBodies, accelerations, bodies, initialStates, termination, propagator) ==
    [stateType |-> "translational_state", centralBodies_ |-> centralBodies,
     accelerationSettingsMap |-> accelerations, bodiesToIntegrate_ |-> bodies,
     initialStates |-> initialStates, terminationSettings |-> termination,
     propagator_ |-> propagator]

MassPropagatorSettings(bodies, massRateModels, initialStates, termination) ==
    [stateType |-> "body_mass_state", bodiesWithMassToPropagate_ |-> bodies,
     massRateSettingsMap |-> massRateModels, initialStates |-> initialStates,
     terminationSettings |-> termination]

RotationalStatePropagatorSettings(torques, bodies, initialStates, termination) ==
    [stateType |-> "rotational_state", torqueSettingsMap |-> torques,
     bodiesToIntegrate_ |-> bodies, initialStates |-> initialStates,
     terminationSettings |-> termination]

\* The exceptions among the outcomes of evaluating the arguments of a call.
Failures(outcomes) == {outcomes[i] : i \in {j \in 1..Len(outcomes) : outcomes[j].status # "ok"}}

\* from_json( json, IntegratedStateType ) behind getValue( json, key, default )
integratedStateTypeOf(o) ==
    IF isDefined(o, "integratedStateType")
    THEN enumFromString(o.integratedStateType, integratedStateTypes)
    ELSE Ok("translational_state")

\* The switch of from_json( json, SingleArcPropagatorSettings ).  The arguments of
\* a constructor are evaluated in an unspecified order: when several of them
\* throw, any of their exceptions may be the one that leaves the call.
fromJsonSwitch(o, integratedStateType, bodiesToPropagate, initialStates) ==
    CASE integratedStateType = "translational_state" ->
            LET central == getValue(o, "centralBodies")
                acc     == getValue(o, "accelerations")
                type    == IF isDefined(o, "type")
                           THEN enumFromString(o.type, translationalPropagatorTypes)
                           ELSE Ok(defaultPropagator)
            IN  IF Failures(<<central, acc, type>>) # {}
                THEN Failures(<<central, acc, type>>)
                ELSE {Ok(TranslationalStatePropagatorSettings(
                            central.value, acc.value, bodiesToPropagate, initialStates,
                            noTermination, type.value))}
      [] integratedStateType = "body_mass_state" ->
            LET rates == getValue(o, "massRateModels")
            IN  IF rates.status # "ok" THEN {rates}
                ELSE {Ok(MassPropagatorSettings(
                            bodiesToPropagate, rates.value, initialStates, noTermination))}
      [] integratedStateType = "rotational_state" ->
            LET torques == getValue(o, "torques")
            IN  IF torques.status # "ok" THEN {torques}
                ELSE {Ok(RotationalStatePropagatorSettings(
                            torques.value, bodiesToPropagate, initialStates, noTermination))}
      [] integratedStateType = "hybrid" -> {Terminate}
      [] OTHER ->
            {handleUnimplementedEnumValue(integratedStateType, unsupportedIntegratedStateTypes)}

\* from_json( json, shared_ptr< SingleArcPropagatorSettings > ): the set of its
\* possible outcomes on the json object o.
fromJsonSingleArc(o) ==
    LET type   == integratedStateTypeOf(o)
        bodies == getValue(o, "bodiesToPropagate")
        states == getValue(o, "initialStates")
    IN  IF type.status # "ok" THEN {type}
        ELSE IF bodies.status # "ok" THEN {bodies}
        ELSE IF states.status # "ok" THEN {states}
        ELSE fromJsonSwitch(o, type.value, bodies.value, vectorFromJson(states.value))

\* The translational case of to_json without the type of the propagator.
translationalToJsonWithoutType(s) ==
    [centralBodies |-> s.centralBodies_,
     bodiesToPropagate |-> s.bodiesToIntegrate_,
     accelerations |-> s.accelerationSettingsMap]

\* The keys set in the translational case of to_json.
translationalToJson(s) ==
    [type |-> stringFromEnum(s.propagator_, translationalPropagatorTypes),
     centralBodies |-> s.centralBodies_,
     bodiesToPropagate |-> s.bodiesToIntegrate_,
     accelerations |-> s.accelerationSettingsMap]

\* The common keys of to_json with the initial states set whatever their size.
commonToJsonAlwaysStates(s) ==
    [integratedStateType |-> stringFromEnum(s.stateType, integratedStateTypes),
     initialStates |-> vectorToJson(s.initialStates)]

\* The keys to_json sets for every propagator: the integrated state type, and
\* the initial states when they have rows.
commonToJson(s) ==
    LET common == WithKey(EmptyObject, "integratedStateType",
                          stringFromEnum(s.stateType, integratedStateTypes))
    IN  IF s.initialStates.rows > 0
        THEN WithKey(common, "initialStates", vectorToJson(s.initialStates))
        ELSE common

\* to_json( json, shared_ptr< SingleArcPropagatorSettings > ): the outcome, whose
\* value is the json written to.  A null pointer leaves the json as it is;
\* the keys of the json that are not written stay.
toJsonSingleArc(json, s) ==
    IF s = Null THEN Ok(json) ELSE
    LET type   == s.stateType
        base   == Merge(asObject(json), commonToJson(s))
    IN  CASE type = "translational_state" -> Ok(Merge(base, translationalToJson(s)))
          [] type = "body_mass_state" ->
                Ok(Merge(base, [bodiesToPropagate |-> s.bodiesWithMassToPropagate_,
                                massRateModels |-> s.massRateSettingsMap]))
          [] type = "rotational_state" ->
                Ok(Merge(base, [bodiesToPropagate |-> s.bodiesToIntegrate_,
                                torques |-> s.torqueSettingsMap]))
          [] type = "hybrid" -> Terminate
          [] OTHER -> handleUnimplementedEnumValue(type, unsupportedIntegratedStateTypes)

-----------------------------------------------------------------------------
(* MultiTypePropagatorSettings.                                            *)

RECURSIVE containsTimeCondition(_)
\* A time condition occurs in ts at some depth.
containsTimeCondition(ts) ==
    \/ ts.kind = "time"
    \/ /\ ts.kind = "hybrid"
       /\ \E i \in 1..Len(ts.terminationSettings_) :
              containsTimeCondition(ts.terminationSettings_[i])

\* timeConditionMissing searching the nested hybrid conditions too.
timeConditionMissingDeep(userConditions) == ~containsTimeCondition(userConditions)

\* The user conditions have no PropagationTimeTerminationSettings among their
\* direct children (the loop over userConditions->terminationSettings_).
timeConditionMissing(userConditions) ==
    ~ \E i \in 1..Len(userConditions.terminationSettings_) :
          userConditions.terminationSettings_[i].kind = "time"

\* The combination of the collected conditions that always builds a hybrid.
combineConditionsAlwaysHybrid(terminationConditions) ==
    HybridTermination(terminationConditions, TRUE)

\* The combination that puts the created time condition before the user conditions.
combineConditionsReversed(terminationConditions) ==
    IF Len(terminationConditions) = 1
    THEN terminationConditions[1]
    ELSE HybridTermination(<<terminationConditions[2], terminationConditions[1]>>, TRUE)

\* One condition is used as it is; two are combined into hybrid termination
\* settings satisfied by any of the two.
combineConditions(terminationConditions) ==
    IF Len(terminationConditions) = 1
    THEN terminationConditions[1]
    ELSE HybridTermination(terminationConditions, TRUE)

\* The termination settings from_json( json, MultiTypePropagatorSettings ) builds.
terminationSettingsOf(o) ==
    LET user    == IF isDefined(o, "termination") THEN <<o.termination>> ELSE <<>>
        missing == IF isDefined(o, "termination")
                   THEN timeConditionMissing(o.termination)
                   ELSE TRUE
        create  == ~isDefined(o, "termination") \/ (isDefined(o, "finalEpoch") /\ missing)
        epoch   == getValue(o, "finalEpoch")
    IN  IF create /\ epoch.status # "ok"
        THEN epoch
        ELSE Ok(combineConditions(
                    user \o (IF create THEN <<TimeTermination(epoch.value)>> ELSE <<>>)))

RECURSIVE fromJsonSingleArcList(_)
\* from_json of a json array of propagators: element by element, in order; the
\* first element that fails ends the conversion.
fromJsonSingleArcList(array) ==
    IF array = <<>>
    THEN {Ok(<<>>)}
    ELSE UNION {IF first.status # "ok"
                THEN {first}
                ELSE {IF rest.status # "ok" THEN rest ELSE Ok(<<first.value>> \o rest.value)
                      : rest \in fromJsonSingleArcList(Tail(array))}
                : first \in fromJsonSingleArc(Head(array))}

\* MultiTypePropagatorSettings( propagatorSettingsVector, terminationSettings,
\* dependentVariablesToSave, printInterval ): the settings are kept in a map from
\* the integrated state type to the list of the settings of that type.
MultiTypePropagatorSettings(propagatorSettingsVector, termination, printInterval) ==
    LET types == {propagatorSettingsVector[i].stateType : i \in 1..Len(propagatorSettingsVector)}
    IN  [stateType |-> "hybrid",
         propagatorSettingsMap_ |->
             [t \in types |-> SelectSeq(propagatorSettingsVector, LAMBDA s : s.stateType = t)],
         terminationSettings |-> termination,
         dependentVariablesToSave |-> Null,
         printInterval |-> printInterval]

\* from_json( json, shared_ptr< MultiTypePropagatorSettings > ): its possible outcomes.
fromJsonMultiType(o) ==
    LET termination == terminationSettingsOf(o)
        propagators == getValue(o, "propagators")
        interval    == IF isDefined(o, "options") /\ isDefined(o.options, "printInterval")
                       THEN o.options.printInterval
                       ELSE TUDAT_NAN
    IN  IF termination.status # "ok" THEN {termination}
        ELSE IF propagators.status # "ok" THEN {propagators}
        ELSE {IF list.status # "ok" THEN list
              ELSE Ok(MultiTypePropagatorSettings(list.value, termination.value, interval))
              : list \in fromJsonSingleArcList(propagators.value)}

RECURSIVE getFlattenedMapValues(_, _)
\* getFlattenedMapValues( map ): the lists of a std::map joined in the order of
\* its keys, from the i-th enumerator on.
getFlattenedMapValues(map, i) ==
    IF i > Len(IntegratedStateTypeValues)
    THEN <<>>
    ELSE (IF IntegratedStateTypeValues[i] \in DOMAIN map
          THEN map[IntegratedStateTypeValues[i]] ELSE <<>>)
         \o getFlattenedMapValues(map, i + 1)

\* toJsonPropagators emitting the settings of the first state type only.
toJsonPropagatorsFirstGroup(m) ==
    LET first == CHOOSE i \in 1..Len(IntegratedStateTypeValues) :
                    /\ IntegratedStateTypeValues[i] \in DOMAIN m.propagatorSettingsMap_
                    /\ \A j \in 1..(i - 1) :
                           IntegratedStateTypeValues[j] \notin DOMAIN m.propagatorSettingsMap_
    IN  IF DOMAIN m.propagatorSettingsMap_ = {} THEN <<>>
        ELSE LET flat == m.propagatorSettingsMap_[IntegratedStateTypeValues[first]]
             IN  [i \in 1..Len(flat) |-> toJsonSingleArc(NoJson, flat[i])]

\* jsonObject[ Keys::propagators ] of to_json( json, MultiTypePropagatorSettings ):
\* the outcome of to_json on each of the flattened settings.
toJsonPropagators(m) ==
    LET flat == getFlattenedMapValues(m.propagatorSettingsMap_, 1)
    IN  [i \in 1..Len(flat) |-> toJsonSingleArc(NoJson, flat[i])]

\* to_json( json, shared_ptr< MultiTypePropagatorSettings > ): the outcome, whose
\* value is the json written to.  A null pointer leaves the json as it is;
\* the keys of the json that are not written stay.
toJsonMultiType(json, m) ==
    IF m = Null THEN Ok(json) ELSE
    LET outcomes == toJsonPropagators(m)
        failed   == {i \in 1..Len(outcomes) : outcomes[i].status # "ok"}
        base     == Merge(asObject(json),
                          [propagators |-> [i \in 1..Len(outcomes) |-> outcomes[i].value],
                           termination |-> m.terminationSettings])
        options  == IF isDefined(base, "options") THEN asObject(base.options) ELSE EmptyObject
    IN  IF failed # {}
        THEN outcomes[CHOOSE i \in failed : \A j \in failed : i <= j]
        ELSE IF ~isNaN(m.printInterval)
             THEN Ok(WithKey(base, "options",
                             WithKey(options, "printInterval", m.printInterval)))
             ELSE Ok(base)

-----------------------------------------------------------------------------
(* Configurations the conversions are run on.                              *)

\* Largest number of bodies to propagate of one propagator.
MaxBodies == 2

\* Largest number of propagators of one configuration.
MaxPropagators == 3

BodyNames == {"Asterix", "Obelix", "Idefix"}

RECURSIVE ListsWithoutRepetition(_, _)
\* The lists of at most n different elements of S.
ListsWithoutRepetition(S, n) ==
    IF n = 0 THEN {<<>>}
    ELSE {<<>>} \cup UNION {{<<x>> \o l : l \in ListsWithoutRepetition(S \ {x}, n - 1)} : x \in S}

BodyLists == ListsWithoutRepetition(BodyNames, MaxBodies)

\* getSingleIntegrationSize( integratedStateType ): the size of the state of one
\* body, and an exception for a state type that has none.
getSingleIntegrationSize(integratedStateType) ==
    CASE integratedStateType = "translational_state" -> Ok(6)
      [] integratedStateType = "rotational_state" -> Ok(7)
      [] integratedStateType = "body_mass_state" -> Ok(1)
      [] OTHER -> Throw("std::runtime_error")

\* json arrays of initial states: sized for 0..MaxBodies bodies of some state type.
StateArrays == {[i \in 1..(k * z) |-> i] : k \in 0..MaxBodies, z \in {1, 6, 7}}

CentralBodyLists == {[i \in 1..k |-> "Earth"] : k \in 0..MaxBodies}

\* The json objects with the key k absent or set to a value of S.
Optional(k, S) == {EmptyObject} \cup {WithKey(EmptyObject, k, v) : v \in S}

CommonParts ==
    {Merge(b, i) : b \in Optional("bodiesToPropagate", BodyLists),
                   i \in Optional("initialStates", StateArrays)}

TranslationalParts ==
    {Merge(Merge(g, c), Merge(a, t)) :
        g \in Optional("integratedStateType", {"translational"}),
        c \in Optional("centralBodies", CentralBodyLists),
        a \in Optional("accelerations", {"pointMassGravity"}),
        t \in Optional("type", {"encke", "rungeKutta4"})}

MassParts ==
    {Merge([integratedStateType |-> "mass"], r) : r \in Optional("massRateModels", {"fromThrust"})}

RotationalParts ==
    {Merge([integratedStateType |-> "rotational"], q) :
        q \in Optional("torques", {"secondOrderGravitational"})}

\* Blocks tagged with a state type that has no single-arc settings.
OtherParts ==
    {Merge([integratedStateType |-> g], a) :
        g \in {"hybrid", "custom", "composite"},
        a \in Optional("accelerations", {"pointMassGravity"})}

PropagatorBlocks ==
    {Merge(c, v) : c \in CommonParts,
                   v \in TranslationalParts \cup MassParts \cup RotationalParts \cup OtherParts}

-----------------------------------------------------------------------------
(* Specification of the single-arc conversions: from_json, to_json of the  *)
(* settings obtained, from_json of the json obtained.                      *)

InitSingleArc ==
    /\ pc = "start"
    /\ jsonObject \in PropagatorBlocks
    /\ jsonBefore = jsonObject
    /\ bodyMap = {}
    /\ terminationSettings = Null
    /\ exportSettingsVector = <<>>
    /\ settings = Null
    /\ result = Null
    /\ log = <<>>

FromJsonSingleArc ==
    /\ pc = "start"
    /\ \E outcome \in fromJsonSingleArc(jsonObject) :
          /\ result' = outcome
          /\ settings' = outcome.value
          /\ pc' = IF outcome.status = "ok" THEN "decoded" ELSE "failed"
    /\ UNCHANGED <<jsonObject, jsonBefore, bodyMap, terminationSettings,
                   exportSettingsVector, log>>

ToJsonSingleArc ==
    /\ pc = "decoded"
    /\ result' = toJsonSingleArc(NoJson, settings)
    /\ jsonObject' = IF result'.status = "ok" THEN result'.value ELSE jsonObject
    /\ pc' = IF result'.status = "ok" THEN "encoded" ELSE "failed"
    /\ UNCHANGED <<jsonBefore, bodyMap, terminationSettings, exportSettingsVector,
                   settings, log>>

FromJsonSingleArcAgain ==
    /\ pc = "encoded"
    /\ \E outcome \in fromJsonSingleArc(jsonObject) :
          result' = outcome
    /\ pc' = "redecoded"
    /\ UNCHANGED <<jsonObject, jsonBefore, bodyMap, terminationSettings,
                   exportSettingsVector, settings, log>>

NextSingleArc == FromJsonSingleArc \/ ToJsonSingleArc \/ FromJsonSingleArcAgain

SpecSingleArc == InitSingleArc /\ [][NextSingleArc]_vars

-----------------------------------------------------------------------------
(* Specification of the multi-type conversions: from_json, then to_json.   *)

\* The final epochs and the print intervals of the configurations.
FinalEpochs == {7}

PrintIntervals == {10}

\* A final epoch earlier than some of the epochs of the user conditions.
EarlierFinalEpochs == {4}

encke == [bodiesToPropagate |-> <<"Obelix">>, initialStates |-> [i \in 1..6 |-> i],
          centralBodies |-> <<"Earth">>, accelerations |-> "pointMassGravity",
          type |-> "encke"]

cowell == [integratedStateType |-> "translational", bodiesToPropagate |-> <<"Asterix">>,
           initialStates |-> [i \in 1..6 |-> i], centralBodies |-> <<"Earth">>,
           accelerations |-> "pointMassGravity"]

mass == [integratedStateType |-> "mass", bodiesToPropagate |-> <<"Asterix">>,
         initialStates |-> <<1>>, massRateModels |-> "fromThrust"]

rotational == [integratedStateType |-> "rotational", bodiesToPropagate |-> <<"Asterix">>,
               initialStates |-> [i \in 1..7 |-> i],
               torques |-> "secondOrderGravitational"]

massWithoutModels == [integratedStateType |-> "mass", bodiesToPropagate |-> <<"Asterix">>,
                      initialStates |-> <<1>>]

\* The blocks of the propagator lists.
ListBlocks == {cowell, encke, mass, rotational, massWithoutModels}

RECURSIVE ListsOf(_, _)
\* The lists of at most n elements of S.
ListsOf(S, n) ==
    IF n = 0 THEN {<<>>}
    ELSE {<<>>} \cup {<<x>> \o l : x \in S, l \in ListsOf(S, n - 1)}

\* Configurations varying the termination conditions and the final epoch.
TerminationConfigurations ==
    {Merge(Merge(t, e), [propagators |-> <<cowell>>]) :
        t \in Optional("termination", HybridConditions),
        e \in Optional("finalEpoch", FinalEpochs \cup EarlierFinalEpochs)}

\* Configurations varying the list of propagators and the options.
PropagatorConfigurations ==
    {Merge(Merge(l, p), [finalEpoch |-> e]) :
        l \in Optional("propagators", ListsOf(ListBlocks, MaxPropagators)),
        p \in Optional("options", {EmptyObject} \cup {[printInterval |-> i] : i \in PrintIntervals}),
        e \in FinalEpochs}

InitMultiType ==
    /\ pc = "start"
    /\ jsonObject \in TerminationConfigurations \cup PropagatorConfigurations
    /\ jsonBefore = jsonObject
    /\ bodyMap = {}
    /\ terminationSettings = Null
    /\ exportSettingsVector = <<>>
    /\ settings = Null
    /\ result = Null
    /\ log = <<>>

FromJsonMultiType ==
    /\ pc = "start"
    /\ \E outcome \in fromJsonMultiType(jsonObject) :
          /\ result' = outcome
          /\ settings' = outcome.value
          /\ pc' = IF outcome.status = "ok" THEN "decoded" ELSE "failed"
    /\ UNCHANGED <<jsonObject, jsonBefore, bodyMap, terminationSettings,
                   exportSettingsVector, log>>

ToJsonMultiType ==
    /\ pc = "decoded"
    /\ result' = toJsonMultiType(NoJson, settings)
    /\ jsonObject' = IF result'.status = "ok" THEN result'.value ELSE jsonObject
    /\ pc' = IF result'.status = "ok" THEN "encoded" ELSE "failed"
    /\ UNCHANGED <<jsonBefore, bodyMap, terminationSettings, exportSettingsVector,
                   settings, log>>

\* getTerminationEpoch of the termination settings of the decoded settings.
GetTerminationEpochOfSettings ==
    /\ pc = "decoded"
    /\ result' = Ok(getTerminationEpoch(settings.terminationSettings))
    /\ pc' = "extracted"
    /\ UNCHANGED <<jsonObject, jsonBefore, bodyMap, terminationSettings,
                   exportSettingsVector, settings, log>>

NextMultiType == FromJsonMultiType \/ ToJsonMultiType \/ GetTerminationEpochOfSettings

SpecMultiType == InitMultiType /\ [][NextMultiType]_vars

-----------------------------------------------------------------------------
(* resetDependentVariableSaveSettings.                                     *)

\* Largest number of variables of all the export settings together.
MaxVariables == 3

\* Largest number of export settings.
MaxExports == 2

\* Variable settings: `dependent' says that the object is a
\* SingleDependentVariableSaveSettings, `object' tells two objects with the
\* same fields apart.
VariableSettings ==
    {[dependent |-> TRUE, variableType |-> "altitude", body |-> "Moon", object |-> 1],
     [dependent |-> TRUE, variableType |-> "altitude", body |-> "Moon", object |-> 2],
     [dependent |-> TRUE, variableType |-> "mass", body |-> "Moon", object |-> 1],
     [dependent |-> FALSE, variableType |-> "altitude", body |-> "Moon", object |-> 3]}

\* getVariableId( dependentVariable ): made of the fields of the variable.
getVariableId(variable) == variable.variableType \o "(" \o variable.body \o ")"

\* contains( vector, value )
contains(vector, value) == \E i \in 1..Len(vector) : vector[i] = value

\* The body of the inner loop without the test of the variable's id.
addVariableUnchecked(acc, variable) ==
    IF variable.dependent
    THEN [addedVariablesIDs |-> Append(acc.addedVariablesIDs, getVariableId(variable)),
          dependentVariables |-> Append(acc.dependentVariables, variable)]
    ELSE acc

\* The body of the inner loop: a dependent variable whose id was not added yet
\* is added.
addVariable(acc, variable) ==
    IF variable.dependent /\ ~contains(acc.addedVariablesIDs, getVariableId(variable))
    THEN [addedVariablesIDs |-> Append(acc.addedVariablesIDs, getVariableId(variable)),
          dependentVariables |-> Append(acc.dependentVariables, variable)]
    ELSE acc

RECURSIVE addVariables(_, _, _)
\* The inner loop, over the variables of one export settings object from index j on.
addVariables(acc, variables, j) ==
    IF j > Len(variables) THEN acc
    ELSE addVariables(addVariable(acc, variables[j]), variables, j + 1)

RECURSIVE addExports(_, _, _)
\* The outer loop, over the export settings from index i on.
addExports(acc, exports, i) ==
    IF i > Len(exports) THEN acc
    ELSE addExports(addVariables(acc, exports[i].variables_, 1), exports, i + 1)

\* boost::make_shared< DependentVariableSaveSettings >( dependentVariables, false )
DependentVariableSaveSettings(dependentVariables, printDependentVariableTypes) ==
    [dependentVariables_ |-> dependentVariables,
     printDependentVariableTypes_ |-> printDependentVariableTypes]

\* resetDependentVariableSaveSettings( propagatorSettings, exportSettingsVector ):
\* the propagator settings after the call.
resetDependentVariableSaveSettings(propagatorSettings, exports) ==
    LET acc == addExports([addedVariablesIDs |-> <<>>, dependentVariables |-> <<>>], exports, 1)
    IN  [propagatorSettings EXCEPT
            !.dependentVariablesToSave =
                DependentVariableSaveSettings(acc.dependentVariables, FALSE)]

RECURSIVE ExportVectors(_, _)
\* The vectors of at most n export settings with at most v variables in all.
ExportVectors(n, v) ==
    IF n = 0 THEN {<<>>}
    ELSE {<<>>} \cup
         UNION {{<<[variables_ |-> vs]>> \o rest : rest \in ExportVectors(n - 1, v - Len(vs))}
                : vs \in ListsOf(VariableSettings, v)}

InitExport ==
    /\ pc = "start"
    /\ exportSettingsVector \in ExportVectors(MaxExports, MaxVariables)
    /\ settings \in {MultiTypePropagatorSettings(<<>>, TimeTermination(e), TUDAT_NAN) : e \in FinalEpochs}
    /\ jsonObject = NoJson
    /\ jsonBefore = NoJson
    /\ bodyMap = {}
    /\ terminationSettings = Null
    /\ result = Null
    /\ log = <<>>

ResetDependentVariableSaveSettings ==
    /\ pc = "start"
    /\ settings' = resetDependentVariableSaveSettings(settings, exportSettingsVector)
    /\ result' = Ok(Null)
    /\ pc' = "done"
    /\ UNCHANGED <<jsonObject, jsonBefore, bodyMap, terminationSettings,
                   exportSettingsVector, log>>

NextExport == ResetDependentVariableSaveSettings

SpecExport == InitExport /\ [][NextExport]_vars

-----------------------------------------------------------------------------
(* determineInitialStates.                                                 *)

\* std::string getAssociatedKey( integratedStateType ): the key of the state
\* in the json object of a body.
getAssociatedKey(integratedStateType) ==
    CASE integratedStateType = "translational_state" -> Ok("initialState")
      [] integratedStateType = "body_mass_state" -> Ok("mass")
      [] integratedStateType = "rotational_state" -> Ok("rotationalState")
      [] OTHER -> Terminate

\* The body map holds the body and the body has an ephemeris at the initial time.
hasEphemeris(map, name) == name \in DOMAIN map /\ map[name].ephemeris

\* The state of a body taken from its ephemeris.
ephemerisState(name) ==
    [k \in 1..6 |-> CASE name = "Asterix" -> 11 [] name = "Obelix" -> 12 [] OTHER -> 13]

\* getInitialStatesOfBodies( bodiesToPropagate, centralBodies, bodyMap, initialTime ):
\* one query for the states of all the bodies with respect to their central
\* bodies; it fails when a body or its ephemeris is missing or when the two
\* lists do not match.
getInitialStatesOfBodies(bodies, centralBodies, map) ==
    IF Len(centralBodies) # Len(bodies)
    THEN Throw("std::runtime_error")
    ELSE IF \E i \in 1..Len(bodies) :
                ~hasEphemeris(map, bodies[i]) \/ ~hasEphemeris(map, centralBodies[i])
         THEN Throw("EphemerisUnavailableError")
         ELSE Ok(Vector([k \in 1..(6 * Len(bodies)) |->
                            ephemerisState(bodies[((k - 1) \div 6) + 1])[((k - 1) % 6) + 1]]))

\* getCartesianState( jsonObject, stateKeyPath, centralBody, initialTime ): the
\* state of the body settings combined with the state of the central body at
\* the initial time.
getCartesianState(o, bodyName, stateKey, map, centralBodyName) ==
    IF ~(isDefined(o, "bodies") /\ isDefined(o.bodies, bodyName)
            /\ isDefined(o.bodies[bodyName], stateKey))
    THEN Throw("UndefinedKeyError:" \o stateKey)
    ELSE IF ~map[centralBodyName].ephemeris
         THEN Throw("EphemerisUnavailableError")
         ELSE Ok(vectorFromJson(o.bodies[bodyName][stateKey]))

\* The entry has no need of inferred initial states, whatever it holds.
hasInitialStatesAlwaysFalse(jsonPropagator) == FALSE

\* isDefined( jsonPropagator, K::initialStates )
hasInitialStates(jsonPropagator) == isDefined(jsonPropagator, "initialStates")

\* The try block of the single-propagator case: the states of the bodies of
\* the only propagator from their ephemeris.  Every exception is caught, so
\* the outcome is only told from its status.
initialStatesFromEphemeris(jsonPropagator, map) ==
    LET bodies  == getValue(jsonPropagator, "bodiesToPropagate")
        central == getValue(jsonPropagator, "centralBodies")
    IN  IF bodies.status # "ok" THEN bodies
        ELSE IF central.status # "ok" THEN central
        ELSE getInitialStatesOfBodies(bodies.value, central.value, map)

\* The state of the i-th body to propagate of a propagator (the body of the
\* loop over the bodies).
bodyState(o, jsonPropagator, integratedStateType, stateKey, bodies, i, map) ==
    IF integratedStateType = "translational_state"
    THEN LET central == getValue(jsonPropagator, "centralBodies")
         IN  IF central.status # "ok" THEN central
             ELSE IF i > Len(central.value) THEN Throw("std::out_of_range")
             ELSE IF central.value[i] \notin DOMAIN map THEN Throw("std::out_of_range")
             ELSE getCartesianState(o, bodies[i], stateKey, map, central.value[i])
    ELSE IF isDefined(o, "bodies") /\ isDefined(o.bodies, bodies[i])
               /\ isDefined(o.bodies[bodies[i]], stateKey)
         THEN Ok(vectorFromJson(o.bodies[bodies[i]][stateKey]))
         ELSE Throw("UndefinedKeyError:" \o stateKey)

\* The initial states of one propagator from the json settings of its bodies:
\* the segments of the bodies in the order of the bodies to propagate.
initialStatesFromBodies(o, jsonPropagator, map) ==
    LET type   == integratedStateTypeOf(jsonPropagator)
        size   == getSingleIntegrationSize(type.value)
        key    == getAssociatedKey(type.value)
        bodies == getValue(jsonPropagator, "bodiesToPropagate")
    IN  IF type.status # "ok" THEN type
        ELSE IF size.status # "ok" THEN size
        ELSE IF key.status # "ok" THEN key
        ELSE IF bodies.status # "ok" THEN bodies
        ELSE LET stateSize == size.value
                 states == [i \in 1..Len(bodies.value) |->
                               bodyState(o, jsonPropagator, type.value, key.value,
                                         bodies.value, i, map)]
                 failed == {i \in 1..Len(states) : states[i].status # "ok"}
             IN  IF failed # {}
                 THEN states[CHOOSE i \in failed : \A j \in failed : i <= j]
                 ELSE Ok(Vector([k \in 1..(stateSize * Len(bodies.value)) |->
                                    states[((k - 1) \div stateSize) + 1].value.coeff[
                                        ((k - 1) % stateSize) + 1]]))

RECURSIVE updateFromBodiesSkippingFailures(_, _, _, _)
\* The loop over the propagators leaving a propagator without initial states
\* when the json settings of its bodies do not give them.
updateFromBodiesSkippingFailures(o, jsonPropagators, n, map) ==
    IF n > Len(jsonPropagators)
    THEN Ok(jsonPropagators)
    ELSE LET states == initialStatesFromBodies(o, jsonPropagators[n], map)
         IN  IF hasInitialStates(jsonPropagators[n]) \/ states.status # "ok"
             THEN updateFromBodiesSkippingFailures(o, jsonPropagators, n + 1, map)
             ELSE updateFromBodiesSkippingFailures(
                      o,
                      [jsonPropagators EXCEPT
                          ![n] = WithKey(@, "initialStates", vectorToJson(states.value))],
                      n + 1, map)

RECURSIVE updateFromBodies(_, _, _, _)
\* The loop over the propagators, from index n on: a propagator without
\* initial states gets the ones of the json settings of its bodies; the first
\* exception ends the loop.  The value is the updated list of propagators.
updateFromBodies(o, jsonPropagators, n, map) ==
    IF n > Len(jsonPropagators)
    THEN Ok(jsonPropagators)
    ELSE IF hasInitialStates(jsonPropagators[n])
         THEN updateFromBodies(o, jsonPropagators, n + 1, map)
         ELSE LET states == initialStatesFromBodies(o, jsonPropagators[n], map)
              IN  IF states.status # "ok"
                  THEN states
                  ELSE updateFromBodies(
                           o,
                           [jsonPropagators EXCEPT
                               ![n] = WithKey(@, "initialStates", vectorToJson(states.value))],
                           n + 1, map)

\* The single-propagator case applying to the first propagator of any list.
singlePropagatorAnyLength(jsonPropagators) ==
    Len(jsonPropagators) >= 1 /\ ~hasInitialStates(jsonPropagators[1])

\* The single-propagator case applying to one propagator with or without
\* initial states.
singlePropagatorWithStates(jsonPropagators) == Len(jsonPropagators) = 1

\* The single-propagator case applies: one propagator, without initial states.
singlePropagator(jsonPropagators) ==
    Len(jsonPropagators) = 1 /\ ~hasInitialStates(jsonPropagators[1])

\* determineInitialStates( jsonObject, bodyMap, integratorSettings ): the outcome
\* of the call, whose value is the json object after it.
determineInitialStates(o, map) ==
    IF ~isDefined(o, "propagators")
    THEN Throw("std::out_of_range")
    ELSE LET jsonPropagators == o.propagators
             type == IF singlePropagator(jsonPropagators)
                     THEN integratedStateTypeOf(jsonPropagators[1])
                     ELSE Ok("none")
             tried == type.status = "ok" /\ type.value = "translational_state"
             fromEphemeris == IF tried
                              THEN initialStatesFromEphemeris(jsonPropagators[1], map)
                              ELSE Throw("not tried")
             usedEphemeris == fromEphemeris.status = "ok"
             updated == IF usedEphemeris
                        THEN Ok(<<WithKey(jsonPropagators[1], "initialStates",
                                          vectorToJson(fromEphemeris.value))>>)
                        ELSE updateFromBodies(o, jsonPropagators, 1, map)
         IN  IF type.status # "ok" THEN type
             ELSE IF updated.status # "ok" THEN updated
             ELSE Ok([o EXCEPT !.propagators = updated.value])

\* A call made by determineInitialStates: the operation, the index of the
\* propagator it is made for (0 for the single-propagator case) and the body.
Access(op, index, body) == [op |-> op, index |-> index, body |-> body]

RECURSIVE bodyAccesses(_, _, _, _, _, _, _, _)
\* The calls of the loop over the bodies of the n-th propagator, from the i-th
\* body on: getCartesianState (which reads the state of the json settings of the
\* body and queries the central body) or getValue of the state of the json
\* settings of the body; the loop ends with the first exception.
bodyAccesses(o, jsonPropagator, n, integratedStateType, stateKey, bodies, i, map) ==
    IF i > Len(bodies) THEN <<>>
    ELSE LET state == bodyState(o, jsonPropagator, integratedStateType, stateKey,
                                bodies, i, map)
             central == getValue(jsonPropagator, "centralBodies")
             called == IF integratedStateType = "translational_state"
                       THEN IF /\ central.status = "ok"
                               /\ i <= Len(central.value)
                               /\ central.value[i] \in DOMAIN map
                            THEN <<Access("getCartesianState", n, bodies[i])>>
                            ELSE <<>>
                       ELSE <<Access("getValue", n, bodies[i])>>
         IN  IF state.status # "ok" THEN called
             ELSE called \o bodyAccesses(o, jsonPropagator, n, integratedStateType,
                                         stateKey, bodies, i + 1, map)

RECURSIVE propagatorAccesses(_, _, _, _)
\* The calls of the loop over the propagators, from index n on: every
\* propagator the loop comes to, and for a propagator without initial states the
\* calls of the loop over its bodies; the loop ends with the first exception.
propagatorAccesses(o, jsonPropagators, n, map) ==
    IF n > Len(jsonPropagators) THEN <<>>
    ELSE LET jsonPropagator == jsonPropagators[n]
             visited == <<Access("propagator", n, "")>>
             type   == integratedStateTypeOf(jsonPropagator)
             size   == getSingleIntegrationSize(type.value)
             key    == getAssociatedKey(type.value)
             bodies == getValue(jsonPropagator, "bodiesToPropagate")
         IN  IF hasInitialStates(jsonPropagator)
             THEN visited \o propagatorAccesses(o, jsonPropagators, n + 1, map)
             ELSE IF \/ type.status # "ok" \/ size.status # "ok"
                     \/ key.status # "ok" \/ bodies.status # "ok"
                  THEN visited
                  ELSE visited
                       \o bodyAccesses(o, jsonPropagator, n, type.value, key.value,
                                       bodies.value, 1, map)
                       \o (IF initialStatesFromBodies(o, jsonPropagator, map).status = "ok"
                           THEN propagatorAccesses(o, jsonPropagators, n + 1, map)
                           ELSE <<>>)

\* What determineInitialStates asked of its collaborators, in the order of the
\* calls: the one query of the ephemerides of the single-propagator case (made
\* when its arguments are read without exception), then the calls of the loop
\* over the propagators unless the ephemerides gave the initial states.
accessesOf(o, map) ==
    IF ~isDefined(o, "propagators") THEN <<>>
    ELSE LET jsonPropagators == o.propagators
             type == IF singlePropagator(jsonPropagators)
                     THEN integratedStateTypeOf(jsonPropagators[1])
                     ELSE Ok("none")
             tried == type.status = "ok" /\ type.value = "translational_state"
             queried == /\ tried
                        /\ getValue(jsonPropagators[1], "bodiesToPropagate").status = "ok"
                        /\ getValue(jsonPropagators[1], "centralBodies").status = "ok"
             used  == tried /\ initialStatesFromEphemeris(jsonPropagators[1], map).status = "ok"
         IN  (IF queried THEN <<Access("getInitialStatesOfBodies", 0, "")>> ELSE <<>>)
             \o (IF type.status = "ok" /\ ~used
                 THEN propagatorAccesses(o, jsonPropagators, 1, map)
                 ELSE <<>>)

-----------------------------------------------------------------------------
(* Specification of determineInitialStates.                                *)

\* Largest number of propagators of a configuration whose initial states are
\* determined.
MaxUndetermined == 2

\* Initial states given by the user.
givenStates == <<9>>

\* Central bodies for n bodies to propagate.
earth(n) == [i \in 1..n |-> "Earth"]

\* Propagators with or without initial states.
UndeterminedBlocks ==
    {Merge(Merge([bodiesToPropagate |-> b], c), i) :
        b \in {<<"Asterix">>},
        c \in Optional("centralBodies", {earth(1)}),
        i \in Optional("initialStates", {givenStates})}
    \cup
    {Merge([bodiesToPropagate |-> <<"Obelix", "Asterix">>, centralBodies |-> earth(2)], i) :
        i \in Optional("initialStates", {givenStates})}
    \cup
    {[integratedStateType |-> "translational", bodiesToPropagate |-> <<"Asterix">>,
      centralBodies |-> earth(1)],
     [integratedStateType |-> "composite", bodiesToPropagate |-> <<"Asterix">>],
     [integratedStateType |-> "hybrid", bodiesToPropagate |-> <<"Asterix">>]}
    \cup
    {Merge([integratedStateType |-> "mass", bodiesToPropagate |-> b], i) :
        b \in {<<"Asterix">>, <<"Obelix", "Asterix">>},
        i \in Optional("initialStates", {givenStates})}
    \cup
    {Merge([integratedStateType |-> "rotational", bodiesToPropagate |-> <<"Asterix">>], i) :
        i \in Optional("initialStates", {givenStates})}

\* The json settings of a body with all its states, each coefficient being c.
bodySettings(c) ==
    [initialState |-> [k \in 1..6 |-> c], mass |-> <<c>>, rotationalState |-> [k \in 1..7 |-> c]]

\* The json settings without a key.
WithoutKey(o, key) == [x \in DOMAIN o \ {key} |-> o[x]]

\* The json settings of the bodies: complete, or with one state missing.
BodiesSettings ==
    {[Asterix |-> bodySettings(1), Obelix |-> bodySettings(2)]}
    \cup {[Asterix |-> WithoutKey(bodySettings(1), key), Obelix |-> bodySettings(2)] :
             key \in {"initialState", "mass"}}
    \cup {[Asterix |-> bodySettings(1), Obelix |-> WithoutKey(bodySettings(2), "mass")]}

\* Body maps: the bodies they hold and whether a body has an ephemeris.
BodyMaps ==
    {[n \in {"Asterix", "Obelix", "Earth"} |-> [ephemeris |-> TRUE]],
     [n \in {"Asterix", "Obelix", "Earth"} |-> [ephemeris |-> FALSE]],
     [n \in {"Asterix", "Obelix", "Earth"} |-> [ephemeris |-> n = "Earth"]],
     [n \in {"Asterix", "Obelix"} |-> [ephemeris |-> TRUE]],
     [n \in {"Asterix", "Obelix"} |-> [ephemeris |-> FALSE]]}

InitInitialStates ==
    /\ pc = "start"
    /\ \E l \in Optional("propagators", ListsOf(UndeterminedBlocks, MaxUndetermined)),
          b \in BodiesSettings, e \in FinalEpochs :
          jsonObject = Merge(l, [bodies |-> b, finalEpoch |-> e])
    /\ jsonBefore = jsonObject
    /\ bodyMap \in BodyMaps
    /\ terminationSettings = Null
    /\ exportSettingsVector = <<>>
    /\ settings = Null
    /\ result = Null
    /\ log = <<>>

DetermineInitialStates ==
    /\ pc = "start"
    /\ LET outcome == determineInitialStates(jsonObject, bodyMap)
       IN  /\ result' = [outcome EXCEPT !.value = Null]
           /\ jsonObject' = IF outcome.status = "ok" THEN outcome.value ELSE jsonObject
           /\ pc' = IF outcome.status = "ok" THEN "resolved" ELSE "failed"
    /\ log' = accessesOf(jsonObject, bodyMap)
    /\ UNCHANGED <<jsonBefore, bodyMap, terminationSettings, exportSettingsVector, settings>>

\* A second call on the json object a first call has updated, with any body map.
DetermineInitialStatesAgain ==
    /\ pc = "resolved"
    /\ \E map \in BodyMaps :
          LET outcome == determineInitialStates(jsonObject, map)
          IN  /\ bodyMap' = map
              /\ result' = [outcome EXCEPT !.value = Null]
              /\ jsonObject' = IF outcome.status = "ok" THEN outcome.value ELSE jsonObject
              /\ pc' = IF outcome.status = "ok" THEN "resolvedAgain" ELSE "failedAgain"
              /\ log' = accessesOf(jsonObject, map)
    /\ UNCHANGED <<jsonBefore, terminationSettings, exportSettingsVector, settings>>

NextInitialStates == DetermineInitialStates \/ DetermineInitialStatesAgain

SpecInitialStates == InitInitialStates /\ [][NextInitialStates]_vars

-----------------------------------------------------------------------------
(* Specification of getTerminationEpoch over all trees of the bound.       *)

InitTermination ==
    /\ pc = "start"
    /\ terminationSettings \in Conditions \cup {Null}
    /\ jsonObject = NoJson
    /\ jsonBefore = NoJson
    /\ bodyMap = {}
    /\ exportSettingsVector = <<>>
    /\ settings = Null
    /\ result = Null
    /\ log = <<>>

CallGetTerminationEpoch ==
    /\ pc = "start"
    /\ result' = Ok(getTerminationEpoch(terminationSettings))
    /\ pc' = "done"
    /\ UNCHANGED <<jsonObject, jsonBefore, bodyMap, terminationSettings,
                   exportSettingsVector, settings, log>>

NextTermination == CallGetTerminationEpoch

SpecTermination == InitTermination /\ [][NextTermination]_vars

-----------------------------------------------------------------------------
(* C3                                                                      *)

RECURSIVE Preorder(_), PreorderList(_, _)
\* The leaves of a termination-condition tree, depth first, in list order.
Preorder(ts) ==
    IF ts.kind = "hybrid" THEN PreorderList(ts.terminationSettings_, 1)
    ELSE IF ts.kind = "null" THEN <<>> ELSE <<ts>>

PreorderList(cs, i) ==
    IF i > Len(cs) THEN <<>> ELSE Preorder(cs[i]) \o PreorderList(cs, i + 1)

\* The epoch of the first leaf that is a time condition with a time bound.
FirstFixedEpoch(leaves) ==
    LET hits == {i \in 1..Len(leaves) :
                    leaves[i].kind = "time" /\ ~isNaN(leaves[i].terminationTime_)}
    IN  IF hits = {} THEN TUDAT_NAN
        ELSE leaves[CHOOSE i \in hits : \A j \in hits : i <= j].terminationTime_

\* C3: getTerminationEpoch returns, without raising an error, the epoch of a
\* time condition, for a hybrid condition of any nesting depth the first time
\* bound met depth first in list order (not the minimum), and TUDAT_NAN when
\* the tree holds no time bound.
C3_FirstEpochDepthFirst ==
    pc = "done" =>
        /\ result.status = "ok"
        /\ result.value = FirstFixedEpoch(Preorder(terminationSettings))
        /\ (terminationSettings.kind = "time"
                => result.value = terminationSettings.terminationTime_)

\* A nested hybrid whose first time bound, 5, is later than a following one, 3.
C3_Witness ==
    /\ pc = "done"
    /\ terminationSettings =
          HybridTermination(<<HybridTermination(<<TimeTermination(5)>>, FALSE),
                              TimeTermination(3)>>, TRUE)
    /\ result.value = 5

-----------------------------------------------------------------------------
(* C1, C2: the termination settings of the decoded multi-type settings.    *)

\* C1: with no user termination condition, a configuration with a final epoch
\* E decodes to the single time condition at E (not a hybrid), and one
\* without a final epoch fails for the missing key and yields no settings;
\* every decoded multi-type settings object has termination settings.
C1_NoUserCondition ==
    /\ (pc \in {"decoded", "failed"} /\ ~isDefined(jsonBefore, "termination")) =>
          /\ (isDefined(jsonBefore, "finalEpoch") /\ pc = "decoded")
                => settings.terminationSettings = TimeTermination(jsonBefore.finalEpoch)
          /\ ~isDefined(jsonBefore, "finalEpoch")
                => /\ pc = "failed"
                   /\ result.status = "error"
                   /\ result.error = "UndefinedKeyError:finalEpoch"
                   /\ settings = Null
    /\ pc = "decoded" => settings.terminationSettings.kind # "null"

\* No user condition, a final epoch: the time condition at the final epoch.
C1_Witness ==
    /\ pc = "decoded"
    /\ ~isDefined(jsonBefore, "termination")
    /\ isDefined(jsonBefore, "finalEpoch")
    /\ settings.terminationSettings = TimeTermination(7)

\* C2: with user conditions U, where hasTimeChild says that a time condition
\* is among the direct children of U: without a final epoch, or with
\* hasTimeChild, the termination settings are U itself; with a final epoch E
\* and no time child they are the hybrid of [U, time(E)] satisfied by any.
C2_UserCondition ==
    (pc = "decoded" /\ isDefined(jsonBefore, "termination")) =>
        LET U == jsonBefore.termination
            hasTimeChild == \E i \in DOMAIN U.terminationSettings_ :
                                U.terminationSettings_[i].kind = "time"
        IN  IF ~isDefined(jsonBefore, "finalEpoch") \/ hasTimeChild
            THEN settings.terminationSettings = U
            ELSE /\ settings.terminationSettings.kind = "hybrid"
                 /\ settings.terminationSettings.fulFillSingleCondition_ = TRUE
                 /\ settings.terminationSettings.terminationSettings_
                        = <<U, TimeTermination(jsonBefore.finalEpoch)>>

\* The only time condition of U is nested: U is wrapped with the final epoch.
C2_Witness ==
    /\ pc = "decoded"
    /\ isDefined(jsonBefore, "termination")
    /\ jsonBefore.termination
          = HybridTermination(<<HybridTermination(<<TimeTermination(5)>>, FALSE)>>, FALSE)
    /\ isDefined(jsonBefore, "finalEpoch")
    /\ settings.terminationSettings
          = HybridTermination(<<jsonBefore.termination, TimeTermination(7)>>, TRUE)

-----------------------------------------------------------------------------
(* C6, C7, C8: the single-arc conversions.                                 *)

\* The exceptions that report a state type that is unknown or not supported.
TagErrors == {"UnknownEnumError", "UnsupportedEnumError", "UnimplementedEnumError"}

\* C6: decoding a block tagged with a state type other than translational,
\* rotational or mass ends with an error reported to the caller and no
\* settings, whatever its other fields are; the error is the one for the tag
\* when the block has its bodies to propagate and its initial states.
C6_UnsupportedVariantRejected ==
    (/\ pc \in {"decoded", "failed"}
     /\ isDefined(jsonBefore, "integratedStateType")
     /\ jsonBefore.integratedStateType \notin {"translational", "rotational", "mass"}) =>
        /\ pc = "failed"
        /\ result.status = "error"
        /\ settings = Null
        /\ (isDefined(jsonBefore, "bodiesToPropagate") /\ isDefined(jsonBefore, "initialStates"))
               => result.error \in TagErrors

\* C7 as claimed: decoding the json of any decoded settings succeeds and gives
\* settings equal to them, settings without initial states included.
C7_RoundTripAll ==
    pc = "redecoded" => result = Ok(settings)

\* C7 amended: decoding the json of decoded settings whose initial states are
\* not empty succeeds and gives settings equal to them field for field;
\* for settings with empty initial states the json has no initial states and
\* decoding it fails for the missing key.
C7_RoundTripNonEmpty ==
    pc = "redecoded" =>
        IF settings.initialStates.rows > 0
        THEN result = Ok(settings)
        ELSE /\ ~isDefined(jsonObject, "initialStates")
             /\ result = Throw("UndefinedKeyError:initialStates")

\* Translational settings with the encke propagator and 12 initial states.
C7_Witness ==
    /\ pc = "redecoded"
    /\ settings.stateType = "translational_state"
    /\ settings.propagator_ = "encke"
    /\ settings.initialStates.rows = 12
    /\ result = Ok(settings)

\* The bodies to propagate of single-arc settings.
bodiesOf(s) ==
    IF s.stateType = "body_mass_state" THEN s.bodiesWithMassToPropagate_ ELSE s.bodiesToIntegrate_

\* C8: the initial states of decoded single-arc settings have the size of the
\* state of one body times the number of bodies to propagate, and a block
\* whose array of initial states has another size is refused: its decoding
\* fails and gives no settings.
C8_VectorLength ==
    /\ pc = "decoded" =>
          settings.initialStates.rows
              = getSingleIntegrationSize(settings.stateType).value * Len(bodiesOf(settings))
    /\ (/\ pc \in {"decoded", "failed"}
        /\ integratedStateTypeOf(jsonBefore).status = "ok"
        /\ integratedStateTypeOf(jsonBefore).value \notin unsupportedIntegratedStateTypes
        /\ isDefined(jsonBefore, "bodiesToPropagate")
        /\ isDefined(jsonBefore, "initialStates")
        /\ Len(jsonBefore.initialStates)
              # getSingleIntegrationSize(integratedStateTypeOf(jsonBefore).value).value
                    * Len(jsonBefore.bodiesToPropagate))
          => pc = "failed"

-----------------------------------------------------------------------------
(* C10: the order of the propagators of the encoded multi-type settings.   *)

\* The state type a block is decoded with.
tagOf(block) ==
    IF isDefined(block, "integratedStateType") THEN block.integratedStateType ELSE "translational"

\* The encoded entry is the one of the block: same state type, bodies, states.
Corresponds(entry, block) ==
    /\ entry.integratedStateType = tagOf(block)
    /\ entry.bodiesToPropagate = block.bodiesToPropagate
    /\ entry.initialStates = block.initialStates
    /\ isDefined(entry, "type") => entry.type = (IF isDefined(block, "type") THEN block.type ELSE "cowell")

\* C10 as claimed: the encoded list has the length of the decoded one and its
\* i-th entry is the one of the i-th block.
C10_InputOrderKept ==
    pc = "encoded" =>
        /\ Len(jsonObject.propagators) = Len(jsonBefore.propagators)
        /\ \A i \in 1..Len(jsonBefore.propagators) :
               Corresponds(jsonObject.propagators[i], jsonBefore.propagators[i])

\* The blocks of a list that are decoded with state type t, in list order.
BlocksOfType(blocks, t) == SelectSeq(blocks, LAMBDA b : tagOf(b) = t)

\* C10 amended: the encoded list has the length of the decoded one, with one
\* entry for each block, grouped by state type (translational, rotational,
\* mass) and in input order within a state type.
C10_GroupedByStateType ==
    pc = "encoded" =>
        LET grouped == BlocksOfType(jsonBefore.propagators, "translational")
                       \o BlocksOfType(jsonBefore.propagators, "rotational")
                       \o BlocksOfType(jsonBefore.propagators, "mass")
        IN  /\ Len(jsonObject.propagators) = Len(jsonBefore.propagators)
            /\ Len(grouped) = Len(jsonBefore.propagators)
            /\ \A i \in 1..Len(grouped) : Corresponds(jsonObject.propagators[i], grouped[i])

\* [mass, translational, rotational] is encoded as [translational, rotational, mass].
C10_Witness ==
    /\ pc = "encoded"
    /\ jsonBefore.propagators = <<mass, encke, rotational>>
    /\ [i \in 1..3 |-> jsonObject.propagators[i].integratedStateType]
          = <<"translational", "rotational", "mass">>

-----------------------------------------------------------------------------
(* C5: the dependent variables to save.                                    *)

RECURSIVE Requested(_, _)
\* The variables of the export settings, in the order they are requested.
Requested(exports, i) ==
    IF i > Len(exports) THEN <<>> ELSE exports[i].variables_ \o Requested(exports, i + 1)

\* C5: the saved list holds exactly the dependent variables some export
\* settings request (others are ignored), no two with the same id, for each id
\* the first variable requested with it, in the order of first request.
C5_FirstSeenWithoutDuplicates ==
    pc = "done" =>
        LET saved == settings.dependentVariablesToSave.dependentVariables_
            asked == Requested(exportSettingsVector, 1)
            \* positions of the first request of each id of a dependent variable
            firsts == {k \in 1..Len(asked) :
                          /\ asked[k].dependent
                          /\ \A j \in 1..(k - 1) :
                                 ~(asked[j].dependent
                                   /\ getVariableId(asked[j]) = getVariableId(asked[k]))}
        IN  /\ Len(saved) = Cardinality(firsts)
            /\ \A k \in 1..Len(saved) :
                   \E p \in firsts :
                       /\ saved[k] = asked[p]
                       /\ Cardinality({q \in firsts : q < p}) = k - 1
            /\ \A k, l \in 1..Len(saved) :
                   k # l => getVariableId(saved[k]) # getVariableId(saved[l])
            /\ \A k \in 1..Len(saved) : saved[k].dependent

\* Two export settings ask for altitude(Moon) with different objects; one asks
\* for mass(Moon) and for a variable that is not a dependent variable.
C5_Witness ==
    /\ pc = "done"
    /\ Len(exportSettingsVector) = 2
    /\ Len(Requested(exportSettingsVector, 1)) = 3
    /\ Requested(exportSettingsVector, 1)[1].object = 2
    /\ Requested(exportSettingsVector, 1)[2].variableType = "mass"
    /\ Requested(exportSettingsVector, 1)[3].object = 1
    /\ Requested(exportSettingsVector, 1)[3].variableType = "altitude"
    /\ Len(settings.dependentVariablesToSave.dependentVariables_) = 2
    /\ settings.dependentVariablesToSave.dependentVariables_[1].object = 2

-----------------------------------------------------------------------------
(* C4, C9: determineInitialStates.                                         *)

\* C4: for one translational propagator without initial states, with its
\* bodies to propagate and their central bodies, a body map none of whose
\* bodies has an ephemeris, and json settings holding the initial state of
\* each body to propagate: the call succeeds and the propagator has initial
\* states afterwards.
C4_FallsBackToBodySettings ==
    (/\ pc \in {"resolved", "failed"}
     /\ isDefined(jsonBefore, "propagators")
     /\ Len(jsonBefore.propagators) = 1
     /\ ~isDefined(jsonBefore.propagators[1], "initialStates")
     /\ tagOf(jsonBefore.propagators[1]) = "translational"
     /\ isDefined(jsonBefore.propagators[1], "centralBodies")
     /\ \A n \in DOMAIN bodyMap : ~bodyMap[n].ephemeris
     /\ \A i \in 1..Len(jsonBefore.propagators[1].bodiesToPropagate) :
            isDefined(jsonBefore.bodies[jsonBefore.propagators[1].bodiesToPropagate[i]],
                      "initialState")) =>
        /\ pc = "resolved"
        /\ result.status = "ok"
        /\ isDefined(jsonObject.propagators[1], "initialStates")

\* C9: after a call that succeeds, a propagator that had initial states is as
\* it was, a propagator that had none differs by its initial states only, and
\* the keys of the json object other than the propagators are as they were.
C9_OnlyMissingInitialStatesAdded ==
    pc = "resolved" =>
        /\ DOMAIN jsonObject = DOMAIN jsonBefore
        /\ \A key \in DOMAIN jsonBefore \ {"propagators"} : jsonObject[key] = jsonBefore[key]
        /\ Len(jsonObject.propagators) = Len(jsonBefore.propagators)
        /\ \A n \in 1..Len(jsonBefore.propagators) :
               LET before == jsonBefore.propagators[n]
                   after  == jsonObject.propagators[n]
               IN  /\ DOMAIN after = DOMAIN before \cup {"initialStates"}
                   /\ \A key \in DOMAIN before : after[key] = before[key]

\* The first propagator keeps the initial states it was given, the second one
\* gets the ones of the json settings of its bodies.
C9_Witness ==
    /\ pc = "resolved"
    /\ Len(jsonBefore.propagators) = 2
    /\ jsonBefore.propagators[1].initialStates = givenStates
    /\ jsonObject.propagators[1].initialStates = givenStates
    /\ ~isDefined(jsonBefore.propagators[2], "initialStates")
    /\ jsonObject.propagators[2].initialStates = <<2, 1>>

-----------------------------------------------------------------------------
(* to_json of single-arc settings: the keys emitted.                       *)

\* The keys to_json sets for the settings of a state type, the initial states
\* and the integrated state type apart.
VariantKeys(stateType) ==
    CASE stateType = "translational_state" ->
            {"type", "centralBodies", "bodiesToPropagate", "accelerations"}
      [] stateType = "body_mass_state" -> {"bodiesToPropagate", "massRateModels"}
      [] stateType = "rotational_state" -> {"bodiesToPropagate", "torques"}

\* The initial states are emitted iff the settings have initial states with rows.
InitialStatesEmittedIffNonEmpty ==
    isDefined(jsonObject, "initialStates") <=> settings.initialStates.rows > 0

\* C11 as stated: the json object encoded from single-arc settings has the keys
\* of the state type of the settings, the initial states iff they are not
\* empty, and the integrated state type only when it is not translational.
C11_TagOnlyWhenNotDefault ==
    pc = "encoded" =>
        /\ InitialStatesEmittedIffNonEmpty
        /\ isDefined(jsonObject, "integratedStateType")
              <=> settings.stateType # "translational_state"
        /\ DOMAIN jsonObject \ {"initialStates", "integratedStateType"}
              = VariantKeys(settings.stateType)

\* C11 amended: the json object encoded from single-arc settings has the keys
\* of the state type of the settings, the initial states iff they are not
\* empty, and always the integrated state type, translational included.
C11_TagAlwaysEmitted ==
    pc = "encoded" =>
        /\ InitialStatesEmittedIffNonEmpty
        /\ isDefined(jsonObject, "integratedStateType")
        /\ jsonObject.integratedStateType
              = stringFromEnum(settings.stateType, integratedStateTypes)
        /\ DOMAIN jsonObject \ {"initialStates", "integratedStateType"}
              = VariantKeys(settings.stateType)

\* Translational settings without initial states have been encoded, with the
\* integrated state type and without the initial states.
C11_Witness ==
    /\ pc = "encoded"
    /\ settings.stateType = "translational_state"
    /\ settings.initialStates.rows = 0
    /\ jsonObject.integratedStateType = "translational"
    /\ ~isDefined(jsonObject, "initialStates")

-----------------------------------------------------------------------------
(* determineInitialStates: the single-propagator case and the loop.        *)

\* The queries of the ephemerides of the single-propagator case among the calls.
Queries(accesses) == SelectSeq(accesses, LAMBDA a : a.op = "getInitialStatesOfBodies")

\* The indices of the propagators the loop came to, in the order of the calls.
Visited(accesses) ==
    LET visits == SelectSeq(accesses, LAMBDA a : a.op = "propagator")
    IN  [i \in 1..Len(visits) |-> visits[i].index]

\* The calls that read the state of a body: from the ephemerides or from the
\* json settings of the body.
StateReads(accesses) == SelectSeq(accesses, LAMBDA a : a.op # "propagator")

\* C12: after a first call, the one query of the ephemerides was made only for
\* a list of exactly one propagator, translational by its tag or by default and
\* without initial states; when the query succeeded its states are the initial
\* states of the propagator and the loop over the propagators was not run; when
\* it was not made or failed, the loop came to the propagators once each, in
\* the order of the list, up to the end of the list or to the first exception.
C12_FastPathGating ==
    (pc \in {"resolved", "failed"} /\ isDefined(jsonBefore, "propagators")) =>
        LET ps        == jsonBefore.propagators
            eligible  == /\ Len(ps) = 1
                         /\ tagOf(ps[1]) = "translational"
                         /\ ~isDefined(ps[1], "initialStates")
            queried   == Queries(log) # <<>>
            batch     == getInitialStatesOfBodies(ps[1].bodiesToPropagate,
                                                  ps[1].centralBodies, bodyMap)
            succeeded == queried /\ batch.status = "ok"
            visited   == Visited(log)
            early     == /\ Len(ps) = 1
                         /\ ~isDefined(ps[1], "initialStates")
                         /\ integratedStateTypeOf(ps[1]).status # "ok"
        IN  /\ queried => (eligible /\ Len(Queries(log)) = 1 /\ log[1] = Queries(log)[1])
            /\ succeeded =>
                  /\ pc = "resolved"
                  /\ Len(log) = 1
                  /\ jsonObject.propagators
                        = <<WithKey(ps[1], "initialStates", vectorToJson(batch.value))>>
            /\ ~succeeded =>
                  /\ visited = [i \in 1..Len(visited) |-> i]
                  /\ Len(visited) <= Len(ps)
                  /\ pc = "resolved" => Len(visited) = Len(ps)
                  /\ (Len(visited) = 0 /\ Len(ps) > 0) => early

\* The query of the ephemerides was made for the only propagator and failed,
\* then the loop came to the propagator and took its initial states from the
\* json settings of its body.
C12_Witness ==
    /\ pc = "resolved"
    /\ Len(jsonBefore.propagators) = 1
    /\ Len(log) = 3
    /\ log[1].op = "getInitialStatesOfBodies"
    /\ log[2] = Access("propagator", 1, "")
    /\ log[3] = Access("getCartesianState", 1, "Asterix")
    /\ jsonObject.propagators[1].initialStates = <<1, 1, 1, 1, 1, 1>>

-----------------------------------------------------------------------------
(* determineInitialStates: a propagator whose initial states cannot be     *)
(* inferred.                                                               *)

\* The ephemerides give the initial states of the only propagator of the list.
EphemerisGivesStates(ps, map) ==
    /\ singlePropagator(ps)
    /\ integratedStateTypeOf(ps[1]) = Ok("translational_state")
    /\ initialStatesFromEphemeris(ps[1], map).status = "ok"

\* The propagators without initial states to which the json settings of their
\* bodies give none.
Unresolvable(o, map) ==
    {n \in 1..Len(o.propagators) :
        /\ ~isDefined(o.propagators[n], "initialStates")
        /\ initialStatesFromBodies(o, o.propagators[n], map).status # "ok"}

\* C13: when the ephemerides did not give the initial states and the json
\* settings of the bodies give none to some propagator, the first call fails
\* with the exception of the first such propagator and the json object is as
\* it was before the call, the propagators before that one included.
C13_FailureLeavesJsonObject ==
    (/\ pc \in {"resolved", "failed"}
     /\ isDefined(jsonBefore, "propagators")
     /\ ~EphemerisGivesStates(jsonBefore.propagators, bodyMap)
     /\ Unresolvable(jsonBefore, bodyMap) # {}) =>
        LET first == CHOOSE n \in Unresolvable(jsonBefore, bodyMap) :
                         \A m \in Unresolvable(jsonBefore, bodyMap) : n <= m
        IN  /\ pc = "failed"
            /\ result.status = "error"
            /\ result.error = initialStatesFromBodies(
                                  jsonBefore, jsonBefore.propagators[first], bodyMap).error
            /\ jsonObject = jsonBefore

\* The call failed at the second propagator after the json settings of the
\* body of the first one had given its initial states, and the first
\* propagator of the json object has no initial states.
C13_Witness ==
    /\ pc = "failed"
    /\ isDefined(jsonBefore, "propagators")
    /\ Len(jsonBefore.propagators) = 2
    /\ Unresolvable(jsonBefore, bodyMap) = {2}
    /\ ~isDefined(jsonBefore.propagators[1], "initialStates")
    /\ Visited(log) = <<1, 2>>
    /\ \E i \in 1..Len(log) : log[i].index = 1 /\ log[i].op \in {"getValue", "getCartesianState"}
    /\ result.status = "error"
    /\ ~isDefined(jsonObject.propagators[1], "initialStates")

-----------------------------------------------------------------------------
(* getTerminationEpoch of the termination settings from_json composes.     *)

\* The time conditions among the leaves of the user conditions of a json
\* object, depth first, in list order.
UserTimeConditions(o) ==
    IF isDefined(o, "termination")
    THEN SelectSeq(Preorder(o.termination), LAMBDA c : c.kind = "time")
    ELSE <<>>

\* C14: for settings decoded with a final epoch E and user conditions whose
\* time conditions all have a time bound, getTerminationEpoch of the composed
\* termination settings is a time bound: E when there are no user conditions
\* or no time condition among them at any depth, and otherwise the time of the
\* first time condition of the user conditions, depth first in list order,
\* be it later than E or nested below the direct children.
C14_EpochOfComposedSettings ==
    (/\ pc = "extracted"
     /\ isDefined(jsonBefore, "finalEpoch")
     /\ \A i \in 1..Len(UserTimeConditions(jsonBefore)) :
            ~isNaN(UserTimeConditions(jsonBefore)[i].terminationTime_)) =>
        LET times == UserTimeConditions(jsonBefore)
        IN  /\ result.status = "ok"
            /\ ~isNaN(result.value)
            /\ result.value = IF times = <<>>
                              THEN jsonBefore.finalEpoch
                              ELSE times[1].terminationTime_

\* The only time condition of the user, at 5, is nested below the direct
\* children: the settings are the hybrid of the user conditions and the time
\* condition at the final epoch 4, and the epoch obtained is 5.
C14_Witness ==
    /\ pc = "extracted"
    /\ isDefined(jsonBefore, "termination")
    /\ isDefined(jsonBefore, "finalEpoch")
    /\ jsonBefore.finalEpoch = 4
    /\ UserTimeConditions(jsonBefore) = <<TimeTermination(5)>>
    /\ settings.terminationSettings
          = HybridTermination(<<jsonBefore.termination, TimeTermination(4)>>, TRUE)
    /\ result.value = 5

-----------------------------------------------------------------------------
(* determineInitialStates called again on the json object it has updated.  *)

\* Every propagator of the json object has initial states.
AllHaveInitialStates(o) ==
    \A n \in 1..Len(o.propagators) : isDefined(o.propagators[n], "initialStates")

\* What a step from a json object updated by a first call is: a second call
\* that succeeds, makes no query of the ephemerides, reads no state of the
\* json settings of a body and leaves the json object as it is.
SecondCallChangesNothing ==
    pc = "resolved" =>
        /\ pc' = "resolvedAgain"
        /\ result'.status = "ok"
        /\ StateReads(log') = <<>>
        /\ Visited(log') = [n \in 1..Len(jsonObject.propagators) |-> n]
        /\ jsonObject' = jsonObject

\* C15: after a call that succeeds every propagator has initial states, and a
\* second call on the json object obtained, with any body map, succeeds,
\* makes no query of the ephemerides, reads no state of the json settings of
\* a body and leaves the json object identical.
C15_SecondCallIdempotent ==
    /\ [](pc \in {"resolved", "resolvedAgain"} => AllHaveInitialStates(jsonObject))
    /\ [](pc # "failedAgain")
    /\ [][SecondCallChangesNothing]_vars

\* Two propagators got their initial states from the json settings of their
\* bodies in a first call, and a second call with a body map without Earth
\* and without ephemerides came to both propagators and asked for no state.
C15_Witness ==
    /\ pc = "resolvedAgain"
    /\ bodyMap = [n \in {"Asterix", "Obelix"} |-> [ephemeris |-> FALSE]]
    /\ Len(jsonBefore.propagators) = 2
    /\ \A n \in 1..2 : ~isDefined(jsonBefore.propagators[n], "initialStates")
    /\ AllHaveInitialStates(jsonObject)
    /\ log = <<Access("propagator", 1, ""), Access("propagator", 2, "")>>
    /\ result.status = "ok"

====
